---------------------------- MODULE Spec2Model ----------------------------
(***************************************************************************)
(* Model of the smart-content-aggregator recommendation engine: the three  *)
(* MongoDB collections (users, articles, interactions) behind the          *)
(* services, and RecommendationService on top of them.                     *)
(*                                                                         *)
(* Scores are kept in tenths (score10 = 10 x score) so that the 0.5 bonus  *)
(* and the 0.1 popularity scaling stay integers.  Every interest score is  *)
(* a multiple of 0.5 and every popularity score is n * 0.1 for a natural   *)
(* n; IEEE doubles order and equate these exactly as the reals do, so the  *)
(* comparisons made by Array.prototype.sort are the ones made here.        *)
(***************************************************************************)
EXTENDS Integers, Sequences, FiniteSets, TLC

VARIABLES
    users,          \* User collection, in creation order
    articles,       \* Article collection, in creation order (createdAt ascending)
    nextArticleId,  \* ObjectIds are never reused: next fresh article id
    interactions,   \* Interaction collection, in creation order
    response,       \* outcome of the last getRecommendationsForUser call on the current store
    matcherInput,   \* interest matcher harness: the (user, article) pair handed to the matcher
    matcherOutput,  \* interest matcher harness: the matcher's reply for matcherInput
    unavailable,    \* the collaborator reads that fail at present (store unavailable)
    trending,       \* outcome of the last getTrendingArticles call on the current store
    httpReply,      \* what RecommendationController answered to the last request
    userReply,      \* outcome of the last UserService.createUser / updateUser
    calls,          \* service calls in flight: where each one stands
    database        \* DatabaseConnection, the mongoose client it opens, and the process

vars == <<users, articles, nextArticleId, interactions, response, matcherInput, matcherOutput,
          unavailable, trending, httpReply, userReply, calls, database>>

storeVars == <<users, articles, nextArticleId, interactions>>

matcherVars == <<matcherInput, matcherOutput>>

\* what the engine and its controller last answered
replyVars == <<response, trending, httpReply>>

-----------------------------------------------------------------------------
(* Bounds of the model *)

\* at most this many user, article-id and interaction records at a time
MaxRecords == 4

\* limits requested from the engine range over 1..MaxLimit
MaxLimit == 3

\* at most this many createInteraction calls are started in a run
MaxCalls == 3

-----------------------------------------------------------------------------
(* Values *)

\* JavaScript null where a document is expected: findById of an unknown id,
\* populate() of a reference that no longer resolves
NULL == [null |-> TRUE]

\* Article.summary is a nullable string ({ default: null }): NoSummary is null,
\* Summary(s) the string s
NoSummary == <<>>

Summary(s) == <<s>>

\* no call answered yet, or the store changed since the last answer
NoResponse == [status |-> "none"]

\* the limit/skip window the engine passes to every listing
PageLimit == 1000

InteractionTypes == {"view", "like"}

\* the reads RecommendationService issues to its collaborators; each can fail
\* while the store is unavailable
Reads == {"getUserById", "getInteractionsByUser", "getArticles",
          "getInteractionStats", "getAllInteractions", "getArticleById"}

\* error.message of the driver's failure, which every service rethrows wrapped
StoreError == "store unavailable"

\* DatabaseConnection before connect() is ever called: isConnected = false, no
\* client, no listener, the process running
NoDatabase ==
    [isConnected |-> FALSE, client |-> "closed", listeners |-> 0,
     connecting |-> 0, disconnecting |-> 0, lastEvent |-> "none",
     shutdown |-> "none", exitCode |-> -1]

-----------------------------------------------------------------------------
(* JavaScript built-ins used by the services *)

Min(a, b) == IF a <= b THEN a ELSE b

UpperCase == <<"A","B","C","D","E","F","G","H","I","J","K","L","M",
               "N","O","P","Q","R","S","T","U","V","W","X","Y","Z">>

LowerCase == <<"a","b","c","d","e","f","g","h","i","j","k","l","m",
               "n","o","p","q","r","s","t","u","v","w","x","y","z">>

\* the lower-case form of each upper-case letter
LowerOf ==
    [c \in {UpperCase[i] : i \in 1..Len(UpperCase)} |->
        LowerCase[CHOOSE i \in 1..Len(UpperCase) : UpperCase[i] = c]]

\* String.prototype.toLowerCase on one character
LowerChar(c) == IF c \in DOMAIN LowerOf THEN LowerOf[c] ELSE c

ToLowerCaseIdentity(s) == s

RECURSIVE toLowerCase(_)
\* String.prototype.toLowerCase: every character lower-cased, order kept
\* (the string is split in halves to keep the evaluation shallow)
toLowerCase(s) ==
    IF Len(s) = 0 THEN ""
    ELSE IF Len(s) = 1 THEN LowerChar(s)
    ELSE toLowerCase(SubSeq(s, 1, Len(s) \div 2))
         \o toLowerCase(SubSeq(s, Len(s) \div 2 + 1, Len(s)))

RECURSIVE trim(_)
\* Joi string().trim() / mongoose { trim: true }: blanks at either end removed
trim(s) ==
    IF Len(s) > 0 /\ SubSeq(s, 1, 1) = " " THEN trim(SubSeq(s, 2, Len(s)))
    ELSE IF Len(s) > 0 /\ SubSeq(s, Len(s), Len(s)) = " " THEN trim(SubSeq(s, 1, Len(s) - 1))
    ELSE s

\* the decimal digits, Digits[v + 1] being the digit of value v
Digits == <<"0", "1", "2", "3", "4", "5", "6", "7", "8", "9">>

IsDigit(c) == \E v \in 1..Len(Digits) : Digits[v] = c

DigitValue(c) == (CHOOSE v \in 1..Len(Digits) : Digits[v] = c) - 1

\* Number.NaN
NaN == [nan |-> TRUE]

RECURSIVE parseDigits(_, _)
\* the value of the longest prefix of s made of digits, after the value acc
parseDigits(s, acc) ==
    IF Len(s) > 0 /\ IsDigit(SubSeq(s, 1, 1))
    THEN parseDigits(SubSeq(s, 2, Len(s)), acc * 10 + DigitValue(SubSeq(s, 1, 1)))
    ELSE acc

\* parseInt(text) for decimal text: blanks skipped, an optional sign, then the
\* longest run of digits; NaN when no digit follows
parseInt(text) ==
    LET s == trim(text)
        signed == Len(s) > 0 /\ SubSeq(s, 1, 1) \in {"-", "+"}
        body == IF signed THEN SubSeq(s, 2, Len(s)) ELSE s
    IN  IF Len(body) = 0 \/ ~IsDigit(SubSeq(body, 1, 1)) THEN NaN
        ELSE [nan |-> FALSE,
              value |-> IF SubSeq(s, 1, 1) = "-"
                        THEN 0 - parseDigits(body, 0) ELSE parseDigits(body, 0)]

\* String.prototype.includes: term occurs in text as a contiguous substring
includes(text, term) ==
    \E i \in 0..(Len(text) - Len(term)) : SubSeq(text, i + 1, i + Len(term)) = term

RECURSIVE join(_, _)
\* Array.prototype.join
join(parts, sep) ==
    IF Len(parts) = 0 THEN ""
    ELSE IF Len(parts) = 1 THEN parts[1]
    ELSE parts[1] \o sep \o join(Tail(parts), sep)

SliceOffByOne(s, n) == SubSeq(s, 1, Min(Len(s), n + 1))

\* Array.prototype.slice(0, n) for n >= 0
slice(s, n) == SubSeq(s, 1, Min(Len(s), n))

RECURSIVE reverse(_)
\* a listing sorted by { createdAt: -1 } is the collection newest first
reverse(s) == IF Len(s) = 0 THEN <<>> ELSE Append(reverse(Tail(s)), Head(s))

\* Math.ceil(limit * 0.6)
ceil06(limit) == (limit * 6 + 9) \div 10

RECURSIVE InsertDescUnstable(_, _)
InsertDescUnstable(sorted, x) ==
    IF Len(sorted) = 0 THEN <<x>>
    ELSE IF Head(sorted).key > x.key
         THEN <<Head(sorted)>> \o InsertDescUnstable(Tail(sorted), x)
         ELSE <<x>> \o sorted

RECURSIVE InsertDesc(_, _)
\* place x after every element whose key is >= x.key: equal keys keep their order
InsertDesc(sorted, x) ==
    IF Len(sorted) = 0 THEN <<x>>
    ELSE IF Head(sorted).key >= x.key
         THEN <<Head(sorted)>> \o InsertDesc(Tail(sorted), x)
         ELSE <<x>> \o sorted

RECURSIVE SortDescFrom(_, _)
SortDescFrom(sorted, rest) ==
    IF Len(rest) = 0 THEN sorted
    ELSE SortDescFrom(InsertDesc(sorted, Head(rest)), Tail(rest))

\* Array.prototype.sort((a, b) => b.k - a.k) where keys[i] is the k of s[i]:
\* descending and stable (ECMAScript 2019)
sortDesc(s, keys) ==
    LET keyed == [i \in 1..Len(s) |-> [key |-> keys[i], item |-> s[i]]]
        sorted == SortDescFrom(<<>>, keyed)
    IN  [i \in 1..Len(s) |-> sorted[i].item]

-----------------------------------------------------------------------------
(* mongoose documents and queries *)

\* ObjectId.prototype.toString: the id's own hex string, distinct for distinct ids
ObjectIdToString(id) == "oid:" \o ToString(id)

\* Object.prototype.toString, which is what a lean() populated sub-document inherits
PlainObjectToString(doc) == "[object Object]"

\* Query.populate('articleId', ...): the referenced article (projected), or null
\* when no article has that id any more
populateArticle(articleId) ==
    IF \E i \in 1..Len(articles) : articles[i]._id = articleId
    THEN LET a == articles[CHOOSE i \in 1..Len(articles) : articles[i]._id = articleId]
         IN  [_id |-> a._id, title |-> a.title, summary |-> a.summary]
    ELSE NULL

\* Query.populate('articleId', 'title author'): as above, fewer fields
populateArticleBrief(articleId) ==
    IF \E i \in 1..Len(articles) : articles[i]._id = articleId
    THEN LET a == articles[CHOOSE i \in 1..Len(articles) : articles[i]._id = articleId]
         IN  [_id |-> a._id, title |-> a.title]
    ELSE NULL

\* Query.populate('userId', 'username')
populateUser(userId) ==
    IF \E i \in 1..Len(users) : users[i]._id = userId
    THEN LET u == users[CHOOSE i \in 1..Len(users) : users[i]._id = userId]
         IN  [_id |-> u._id, username |-> u.username]
    ELSE NULL

\* mongoose casting a string to ObjectId: the id whose string this is, NULL
\* when the string is no ObjectId's string (CastError)
castToObjectId(id) ==
    IF \E n \in 0..nextArticleId : ObjectIdToString(n) = id
    THEN [_id |-> CHOOSE n \in 0..nextArticleId : ObjectIdToString(n) = id]
    ELSE NULL

\* ArticleService.getArticleById(id: string): the document or null, or the
\* error it rethrows; the filter is cast before the query is sent
getArticleById(id) ==
    IF castToObjectId(id) = NULL
    THEN [ok |-> FALSE,
          message |-> "Failed to retrieve article: Cast to ObjectId failed for value \""
                          \o id \o "\""]
    ELSE IF "getArticleById" \in unavailable
    THEN [ok |-> FALSE, message |-> "Failed to retrieve article: " \o StoreError]
    ELSE LET oid == castToObjectId(id)._id
         IN  [ok |-> TRUE,
              article |-> IF \E i \in 1..Len(articles) : articles[i]._id = oid
                          THEN articles[CHOOSE i \in 1..Len(articles) :
                                            articles[i]._id = oid]
                          ELSE NULL]

\* InteractionService.getAllInteractions(limit, 0): every interaction newest
\* first, first `limit` of them, userId and articleId populated
getAllInteractions(limit) ==
    LET page == slice(reverse(interactions), limit)
    IN  [i \in 1..Len(page) |->
            [userId |-> populateUser(page[i].userId),
             articleId |-> populateArticleBrief(page[i].articleId),
             interactionType |-> page[i].interactionType]]

\* UserService.getUserById: User.findById
getUserById(id) ==
    IF \E i \in 1..Len(users) : users[i]._id = id
    THEN users[CHOOSE i \in 1..Len(users) : users[i]._id = id]
    ELSE NULL

\* ArticleService.getArticles(limit, 0): newest first, first `limit` documents
getArticles(limit) == slice(reverse(articles), limit)

\* InteractionService.getInteractionsByUser(userId, limit, 0): the user's
\* interactions newest first, first `limit` of them, articleId populated
getInteractionsByUser(userId, limit) ==
    LET mine == SelectSeq(reverse(interactions), LAMBDA x : x.userId = userId)
        page == slice(mine, limit)
    IN  [i \in 1..Len(page) |->
            [userId |-> page[i].userId,
             articleId |-> populateArticle(page[i].articleId),
             interactionType |-> page[i].interactionType]]

\* Interaction.countDocuments({ articleId, interactionType })
countDocuments(articleId, interactionType) ==
    Len(SelectSeq(interactions,
                  LAMBDA x : x.articleId = articleId /\ x.interactionType = interactionType))

\* InteractionService.getInteractionStats
getInteractionStats(articleId) ==
    [views |-> countDocuments(articleId, "view"),
     likes |-> countDocuments(articleId, "like"),
     totalInteractions |-> Len(SelectSeq(interactions, LAMBDA x : x.articleId = articleId))]

-----------------------------------------------------------------------------
(* RecommendationService: interest matcher *)

\* [title, content, summary || ''].join(' ').toLowerCase()
articleText(article) ==
    toLowerCase(join(<<article.title,
                       article.content,
                       IF article.summary = NoSummary THEN "" ELSE article.summary[1]>>,
                     " "))

MatchInterestFirstFieldOnly(article, interest, acc) ==
    LET interestLower == toLowerCase(interest)
        inTitle == includes(toLowerCase(article.title), interestLower)
        inSummary == /\ article.summary # NoSummary
                     /\ includes(toLowerCase(article.summary[1]), interestLower)
        inContent == includes(toLowerCase(article.content), interestLower)
    IN  IF includes(articleText(article), interestLower)
        THEN [matchedInterests |-> Append(acc.matchedInterests, interest),
              score10 |-> acc.score10 + (IF inTitle THEN 30
                                         ELSE IF inSummary THEN 20
                                         ELSE IF inContent THEN 10 ELSE 0)]
        ELSE acc

\* one iteration of `for (const interest of userInterests)`; acc is
\* (matchedInterests, score) so far, the score in tenths
matchInterest(article, interest, acc) ==
    LET interestLower == toLowerCase(interest)
        inTitle == includes(toLowerCase(article.title), interestLower)
        inSummary == /\ article.summary # NoSummary
                     /\ includes(toLowerCase(article.summary[1]), interestLower)
        inContent == includes(toLowerCase(article.content), interestLower)
    IN  IF includes(articleText(article), interestLower)
        THEN [matchedInterests |-> Append(acc.matchedInterests, interest),
              score10 |-> acc.score10 + (IF inTitle THEN 30 ELSE 0)
                                      + (IF inSummary THEN 20 ELSE 0)
                                      + (IF inContent THEN 10 ELSE 0)]
        ELSE acc

RECURSIVE matchInterests(_, _, _)
\* the whole `for (const interest of userInterests)` loop
matchInterests(article, userInterests, acc) ==
    IF Len(userInterests) = 0 THEN acc
    ELSE matchInterests(article, Tail(userInterests),
                        matchInterest(article, Head(userInterests), acc))

\* body of `for (const article of articles)`: the recommendations this article adds
interestRecommendationsOf(article, userInterests) ==
    LET m == matchInterests(article, userInterests,
                            [matchedInterests |-> <<>>, score10 |-> 0])
    IN  IF Len(m.matchedInterests) > 0
        THEN <<[article |-> article,
                score10 |-> m.score10 + Len(m.matchedInterests) * 5,
                reason |-> "Matches your interests: " \o join(m.matchedInterests, ", "),
                matchedInterests |-> m.matchedInterests]>>
        ELSE <<>>

RECURSIVE interestRecommendationsOfAll(_, _)
interestRecommendationsOfAll(arts, userInterests) ==
    IF Len(arts) = 0 THEN <<>>
    ELSE interestRecommendationsOf(Head(arts), userInterests)
         \o interestRecommendationsOfAll(Tail(arts), userInterests)

GetInterestBasedRecommendationsNoGuard(user, arts, limit) ==
    LET recommendations ==
            [i \in 1..Len(arts) |->
                LET m == matchInterests(arts[i], user.interests,
                                        [matchedInterests |-> <<>>, score10 |-> 0])
                IN  [article |-> arts[i],
                     score10 |-> m.score10 + Len(m.matchedInterests) * 5,
                     reason |-> "Matches your interests: " \o join(m.matchedInterests, ", "),
                     matchedInterests |-> m.matchedInterests]]
    IN  slice(sortDesc(recommendations,
                       [i \in 1..Len(recommendations) |-> recommendations[i].score10]),
              limit)

\* RecommendationService.getInterestBasedRecommendations
getInterestBasedRecommendations(user, arts, limit) ==
    IF Len(user.interests) = 0 THEN <<>>
    ELSE LET recommendations == interestRecommendationsOfAll(arts, user.interests)
         IN  slice(sortDesc(recommendations,
                            [i \in 1..Len(recommendations) |-> recommendations[i].score10]),
                   limit)

-----------------------------------------------------------------------------
(* RecommendationService: popularity ranker *)

\* the reason text chosen from which counters are non-zero
popularityReason(stats) ==
    IF stats.likes > 0 /\ stats.views > 0
    THEN "Popular article (" \o ToString(stats.likes) \o " likes, "
                             \o ToString(stats.views) \o " views)"
    ELSE IF stats.likes > 0
    THEN "Well-liked article (" \o ToString(stats.likes) \o " likes)"
    ELSE IF stats.views > 0
    THEN "Trending article (" \o ToString(stats.views) \o " views)"
    ELSE "Popular article"

ArticleStatSwappedWeights(article) ==
    LET stats == getInteractionStats(article._id)
    IN  [article |-> article,
         stats |-> stats,
         popularityScore |-> stats.likes + stats.views * 2]

\* one element of articleStats, once getInteractionStats has resolved to stats
articleStatOf(article, stats) ==
    [article |-> article,
     stats |-> stats,
     popularityScore |-> stats.likes * 2 + stats.views]

\* one element of articleStats, the counts read from the store as it is now
articleStat(article) == articleStatOf(article, getInteractionStats(article._id))

\* getPopularityBasedRecommendations once Promise.all has resolved to
\* articleStats: filter, sort, slice and the recommendation of each item;
\* popularityScore * 0.1 is popularityScore tenths
popularityRecommendationsOf(articleStats, limit) ==
    LET engaged == SelectSeq(articleStats, LAMBDA item : item.popularityScore > 0)
        sortedByPopularity ==
            slice(sortDesc(engaged, [i \in 1..Len(engaged) |-> engaged[i].popularityScore]),
                  limit)
    IN  [i \in 1..Len(sortedByPopularity) |->
            [article |-> sortedByPopularity[i].article,
             score10 |-> sortedByPopularity[i].popularityScore,
             reason |-> popularityReason(sortedByPopularity[i].stats)]]

\* RecommendationService.getPopularityBasedRecommendations, every count read
\* from the store as it is now
getPopularityBasedRecommendations(arts, limit) ==
    popularityRecommendationsOf([i \in 1..Len(arts) |-> articleStat(arts[i])], limit)

-----------------------------------------------------------------------------
(* RecommendationService.getRecommendationsForUser *)

\* what the catch block rethrows: no recommendation list is returned
failure(userId, limit, message) ==
    [status |-> "error",
     request |-> [userId |-> userId, limit |-> limit],
     message |-> "Failed to generate recommendations: " \o message]

\* viewedArticleIds: interaction.articleId.toString() of every `view`; after
\* populate().lean() articleId is the populated plain object, not an ObjectId
viewedArticleIdsOf(userInteractions) ==
    LET views == SelectSeq(userInteractions, LAMBDA x : x.interactionType = "view")
    IN  {PlainObjectToString(views[i].articleId) : i \in 1..Len(views)}

\* allArticles.data.filter(article => !viewedArticleIds.has(article._id.toString()))
unviewedArticlesOf(allArticles, viewedArticleIds) ==
    SelectSeq(allArticles, LAMBDA a : ObjectIdToString(a._id) \notin viewedArticleIds)

PopularityCandidatesNoExclude(unviewedArticles, viewedArticleIds, recommendations) ==
    unviewedArticles

\* unviewedArticles.filter(article => !excludeIds.has(article._id.toString()))
popularityCandidates(unviewedArticles, viewedArticleIds, recommendations) ==
    LET excludeIds ==
            viewedArticleIds \cup
            {ObjectIdToString(recommendations[i].article._id) :
                i \in 1..Len(recommendations)}
    IN  SelectSeq(unviewedArticles, LAMBDA a : ObjectIdToString(a._id) \notin excludeIds)

RECURSIVE SortDescFromUnstable(_, _)
SortDescFromUnstable(sorted, rest) ==
    IF Len(rest) = 0 THEN sorted
    ELSE SortDescFromUnstable(InsertDescUnstable(sorted, Head(rest)), Tail(rest))

RankRecommendationsUnstable(recommendations, limit) ==
    LET keyed == [i \in 1..Len(recommendations) |->
                     [key |-> recommendations[i].score10, item |-> recommendations[i]]]
        sorted == SortDescFromUnstable(<<>>, keyed)
    IN  slice([i \in 1..Len(recommendations) |-> sorted[i].item], limit)

RankRecommendationsDroppingLast(recommendations, limit) ==
    slice(sortDesc(recommendations,
                   [i \in 1..Len(recommendations) |-> recommendations[i].score10]),
          limit - 1)

\* recommendations.sort((a, b) => b.score - a.score).slice(0, limit)
rankRecommendations(recommendations, limit) ==
    slice(sortDesc(recommendations,
                   [i \in 1..Len(recommendations) |-> recommendations[i].score10]),
          limit)

\* `Sort by score (descending) and limit results` and the returned object
recommendationResponse(user, limit, interestRecommendations, popularityRecommendations) ==
    LET recommendations == interestRecommendations \o popularityRecommendations
        sortedRecommendations == rankRecommendations(recommendations, limit)
    IN  [status |-> "ok",
         request |-> [userId |-> user._id, limit |-> limit],
         recommendations |-> sortedRecommendations,
         total |-> Len(sortedRecommendations),
         user |-> [id |-> ObjectIdToString(user._id),
                   username |-> user.username,
                   interests |-> user.interests],
         metadata |-> [interestBasedCount |-> Len(interestRecommendations),
                       popularityBasedCount |->
                           Len(recommendations) - Len(interestRecommendations),
                       algorithm |-> "rule-based-v1"]]

\* the try block from `Get all articles` on: the user is resolved and
\* viewedArticleIds is built
recommendationsFor(user, viewedArticleIds, limit) ==
    LET allArticles == getArticles(PageLimit)
        unviewedArticles == unviewedArticlesOf(allArticles, viewedArticleIds)
        interestBasedLimit == ceil06(limit)
        interestRecommendations ==
            getInterestBasedRecommendations(user, unviewedArticles, interestBasedLimit)
        popularityBasedLimit == limit - Len(interestRecommendations)
        popularityRecommendations ==
            IF popularityBasedLimit > 0
            THEN getPopularityBasedRecommendations(
                     popularityCandidates(unviewedArticles, viewedArticleIds,
                                          interestRecommendations),
                     popularityBasedLimit)
            ELSE <<>>
    IN  IF "getArticles" \in unavailable
        THEN failure(user._id, limit, "Failed to retrieve articles: " \o StoreError)
        ELSE IF /\ popularityBasedLimit > 0
                /\ Len(popularityCandidates(unviewedArticles, viewedArticleIds,
                                            interestRecommendations)) > 0
                /\ "getInteractionStats" \in unavailable
        \* Promise.all rejects as soon as one getInteractionStats does
        THEN failure(user._id, limit,
                     "Failed to retrieve interaction statistics: " \o StoreError)
        ELSE recommendationResponse(user, limit, interestRecommendations,
                                    popularityRecommendations)

GetRecommendationsUncheckedUser(userId, limit) ==
    LET user == getUserById(userId)
        userInteractions == getInteractionsByUser(userId, PageLimit)
    IN  IF \E i \in 1..Len(userInteractions) :
                /\ userInteractions[i].interactionType = "view"
                /\ userInteractions[i].articleId = NULL
        THEN failure(userId, limit,
                     "Cannot read properties of null (reading 'toString')")
        ELSE IF user = NULL
        THEN failure(userId, limit,
                     "Cannot read properties of null (reading 'interests')")
        ELSE recommendationsFor(user, viewedArticleIdsOf(userInteractions), limit)

\* RecommendationService.getRecommendationsForUser
getRecommendationsForUser(userId, limit) ==
    LET user == getUserById(userId)
        userInteractions == getInteractionsByUser(userId, PageLimit)
    IN  IF "getUserById" \in unavailable
        THEN failure(userId, limit, "Failed to retrieve user: " \o StoreError)
        ELSE IF user = NULL
        THEN failure(userId, limit, "User not found")
        ELSE IF "getInteractionsByUser" \in unavailable
        THEN failure(userId, limit, "Failed to retrieve user interactions: " \o StoreError)
        ELSE IF \E i \in 1..Len(userInteractions) :
                    /\ userInteractions[i].interactionType = "view"
                    /\ userInteractions[i].articleId = NULL
        \* null.toString(): a viewed article that no longer resolves
        THEN failure(userId, limit,
                     "Cannot read properties of null (reading 'toString')")
        ELSE recommendationsFor(user, viewedArticleIdsOf(userInteractions), limit)

-----------------------------------------------------------------------------
(* RecommendationService.getTrendingArticles *)

\* what the outer catch block rethrows
trendingFailure(limit, message) ==
    [status |-> "error",
     request |-> [limit |-> limit],
     message |-> "Failed to get trending articles: " \o message]

\* one iteration of `for (const interaction of recentInteractions.interactions)`:
\* the Map as its entries in insertion order; the key is
\* interaction.articleId.toString() of the populated lean document
countInteraction(entries, interaction) ==
    LET articleId == PlainObjectToString(interaction.articleId)
        known == \E k \in 1..Len(entries) : entries[k].articleId = articleId
        current == IF known
                   THEN entries[CHOOSE k \in 1..Len(entries) :
                                    entries[k].articleId = articleId]
                   ELSE [articleId |-> articleId, views |-> 0, likes |-> 0]
        counted == [articleId |-> articleId,
                    views |-> current.views
                                  + (IF interaction.interactionType = "view" THEN 1 ELSE 0),
                    likes |-> current.likes
                                  + (IF interaction.interactionType = "like" THEN 1 ELSE 0)]
    IN  IF known
        THEN [k \in 1..Len(entries) |->
                 IF entries[k].articleId = articleId THEN counted ELSE entries[k]]
        ELSE Append(entries, counted)

RECURSIVE countInteractions(_, _)
\* the whole counting loop
countInteractions(entries, recentInteractions) ==
    IF Len(recentInteractions) = 0 THEN entries
    ELSE countInteractions(countInteraction(entries, Head(recentInteractions)),
                           Tail(recentInteractions))

\* one iteration of `for (const [articleId, stats] of ...entries())`: the
\* recommendation pushed, none when the lookup throws or finds nothing
trendingRecommendationOf(stats) ==
    LET found == getArticleById(stats.articleId)
    IN  IF found.ok /\ found.article # NULL
        THEN <<[article |-> found.article,
                score |-> stats.likes * 3 + stats.views,
                reason |-> "Trending now (" \o ToString(stats.likes) \o " likes, "
                               \o ToString(stats.views) \o " views)"]>>
        ELSE <<>>

RECURSIVE trendingRecommendationsOfAll(_)
trendingRecommendationsOfAll(entries) ==
    IF Len(entries) = 0 THEN <<>>
    ELSE trendingRecommendationOf(Head(entries))
         \o trendingRecommendationsOfAll(Tail(entries))

\* RecommendationService.getTrendingArticles
getTrendingArticles(limit) ==
    LET recentInteractions == getAllInteractions(PageLimit)
        recommendations ==
            trendingRecommendationsOfAll(countInteractions(<<>>, recentInteractions))
    IN  IF "getAllInteractions" \in unavailable
        THEN trendingFailure(limit, "Failed to retrieve all interactions: " \o StoreError)
        ELSE IF \E i \in 1..Len(recentInteractions) : recentInteractions[i].articleId = NULL
        \* null.toString(): an interaction whose article no longer resolves
        THEN trendingFailure(limit, "Cannot read properties of null (reading 'toString')")
        ELSE [status |-> "ok",
              request |-> [limit |-> limit],
              recommendations |->
                  slice(sortDesc(recommendations,
                                 [i \in 1..Len(recommendations) |->
                                     recommendations[i].score]),
                        limit)]

-----------------------------------------------------------------------------
(* Inputs the handlers are driven with *)

\* interest lists a user is created with (createUserSchema: 0..10 non-empty terms)
InterestLists == {<<>>, <<"ai", "web dev">>}

\* article bodies posted to POST /articles (trimmed, title and content non-empty)
ArticleTexts ==
    {[title |-> "AI news", content |-> "models", summary |-> NoSummary],
     [title |-> "Cooking", content |-> "pasta", summary |-> Summary("")],
     [title |-> "Learn web", content |-> "dev tools", summary |-> Summary("ai")]}

\* records currently held against the MaxRecords bound
RecordCount == Len(users) + (nextArticleId - 1) + Len(interactions)

-----------------------------------------------------------------------------
(* The store's write handlers.  A reply describes the store it was computed  *)
(* from: every write discards the replies held.                             *)

\* every write discards the replies computed from the store as it was
DiscardReplies ==
    /\ response' = NoResponse
    /\ trending' = NoResponse
    /\ httpReply' = NoResponse

NormalizeUsernameKeepCase(username) == trim(username)

\* the username as stored: createUserSchema / updateUserSchema apply
\* trim().lowercase() to the request body, UserSchema { trim, lowercase } again
normalizeUsername(username) == toLowerCase(trim(username))

\* the unique index on { username: 1 } rejects the write (E11000): a document
\* other than exceptId already holds this username
duplicateKey(username, exceptId) ==
    \E i \in 1..Len(users) : users[i]._id # exceptId /\ users[i].username = username

\* POST /users: UserController.createUser and UserService.createUser
CreateUser(userData) ==
    LET username == normalizeUsername(userData.username)
        user == [_id |-> Len(users) + 1,
                 username |-> username,
                 interests |-> userData.interests]
        request == [operation |-> "createUser", id |-> user._id,
                    username |-> userData.username]
    IN  /\ IF duplicateKey(username, user._id)
           THEN /\ userReply' = [status |-> "error",
                                 request |-> request,
                                 message |-> "Username already exists"]
                /\ UNCHANGED <<users, replyVars>>
           ELSE /\ RecordCount < MaxRecords
                /\ users' = Append(users, user)
                /\ userReply' = [status |-> "ok", request |-> request, user |-> user]
                /\ DiscardReplies
        /\ UNCHANGED <<articles, nextArticleId, interactions, matcherVars,
                       unavailable, database, calls>>

\* PUT /users/:id: UserController.updateUser and UserService.updateUser
\* (User.findByIdAndUpdate); updateData holds the fields the body names
UpdateUser(id, updateData) ==
    LET named == "username" \in DOMAIN updateData
        username == IF named THEN normalizeUsername(updateData.username) ELSE ""
        request == [operation |-> "updateUser", id |-> id,
                    username |-> IF named THEN updateData.username ELSE ""]
        updated(user) ==
            [_id |-> user._id,
             username |-> IF named THEN username ELSE user.username,
             interests |-> IF "interests" \in DOMAIN updateData
                           THEN updateData.interests ELSE user.interests]
    IN  /\ IF getUserById(id) = NULL
           \* findByIdAndUpdate resolves to null: 404 'User not found'
           THEN /\ userReply' = [status |-> "ok", request |-> request, user |-> NULL]
                /\ UNCHANGED <<users, replyVars>>
           ELSE IF named /\ duplicateKey(username, id)
           THEN /\ userReply' = [status |-> "error",
                                 request |-> request,
                                 message |-> "Username already exists"]
                /\ UNCHANGED <<users, replyVars>>
           ELSE /\ users' = [i \in 1..Len(users) |->
                                IF users[i]._id = id THEN updated(users[i]) ELSE users[i]]
                /\ userReply' = [status |-> "ok", request |-> request,
                                 user |-> updated(getUserById(id))]
                /\ DiscardReplies
        /\ UNCHANGED <<articles, nextArticleId, interactions, matcherVars,
                       unavailable, database, calls>>

\* ArticleService.createArticle
CreateArticle(text) ==
    /\ RecordCount < MaxRecords
    /\ articles' = Append(articles, [_id |-> nextArticleId,
                                     title |-> text.title,
                                     content |-> text.content,
                                     summary |-> text.summary])
    /\ nextArticleId' = nextArticleId + 1
    /\ DiscardReplies
    /\ UNCHANGED <<users, interactions, matcherVars, unavailable, database, userReply, calls>>

\* ArticleService.deleteArticle: the article goes, its interactions stay
DeleteArticle(id) ==
    /\ \E i \in 1..Len(articles) : articles[i]._id = id
    /\ articles' = SelectSeq(articles, LAMBDA a : a._id # id)
    /\ DiscardReplies
    /\ UNCHANGED <<users, nextArticleId, interactions, matcherVars,
                   unavailable, database, userReply, calls>>

\* Interaction.findOne({ userId, articleId, interactionType }) finds a document
hasInteraction(userId, articleId, interactionType) ==
    \E i \in 1..Len(interactions) :
        /\ interactions[i].userId = userId
        /\ interactions[i].articleId = articleId
        /\ interactions[i].interactionType = interactionType

\* InteractionService.createInteraction, run to completion: the existing
\* document is returned, or a new one is saved; neither reference is checked
CreateInteraction(userId, articleId, interactionType) ==
    /\ IF hasInteraction(userId, articleId, interactionType)
       THEN UNCHANGED interactions
       ELSE /\ RecordCount < MaxRecords
            /\ interactions' = Append(interactions,
                                      [userId |-> userId,
                                       articleId |-> articleId,
                                       interactionType |-> interactionType])
    /\ DiscardReplies
    /\ UNCHANGED <<users, articles, nextArticleId, matcherVars,
                   unavailable, database, userReply, calls>>

\* InteractionService.removeInteraction: Interaction.findOneAndDelete
RemoveInteraction(userId, articleId, interactionType) ==
    /\ hasInteraction(userId, articleId, interactionType)
    /\ interactions' = SelectSeq(interactions,
                                 LAMBDA x : ~(/\ x.userId = userId
                                              /\ x.articleId = articleId
                                              /\ x.interactionType = interactionType))
    /\ DiscardReplies
    /\ UNCHANGED <<users, articles, nextArticleId, matcherVars,
                   unavailable, database, userReply, calls>>

-----------------------------------------------------------------------------
(* The engine's read handler *)

GetRecommendationsRecordingViews(userId, limit) ==
    LET reply == getRecommendationsForUser(userId, limit)
        shown == IF reply.status = "ok" THEN reply.recommendations ELSE <<>>
    IN  /\ response' = reply
        /\ interactions' =
               interactions \o [i \in 1..Len(shown) |->
                                   [userId |-> userId,
                                    articleId |-> shown[i].article._id,
                                    interactionType |-> "view"]]
        /\ UNCHANGED <<users, articles, nextArticleId, matcherVars, unavailable, database,
                       trending, httpReply, userReply, calls>>

\* GET /recommendations/:userId?limit=: the reply is kept in `response`
GetRecommendations(userId, limit) ==
    /\ response' = getRecommendationsForUser(userId, limit)
    /\ UNCHANGED <<storeVars, matcherVars, unavailable, database, trending, httpReply,
                   userReply, calls>>

-----------------------------------------------------------------------------
Init ==
    /\ users = <<>>
    /\ articles = <<>>
    /\ nextArticleId = 1
    /\ interactions = <<>>
    /\ response = NoResponse
    /\ matcherInput = NULL
    /\ matcherOutput = NoResponse
    /\ unavailable = {}
    /\ database = NoDatabase
    /\ trending = NoResponse
    /\ httpReply = NoResponse
    /\ userReply = NoResponse
    /\ calls = <<>>

\* a username no stored user holds: POST /users bodies of this specification
\* never collide
FreshUsername == "user" \o ToString(Len(users) + 1)

\* ids a request may name: every stored user and one id that resolves to nothing
RequestUserIds == 1..(Len(users) + 1)

\* article ids ever issued, deleted ones included
IssuedArticleIds == 1..(nextArticleId - 1)

Next ==
    \/ \E interests \in InterestLists :
           CreateUser([username |-> FreshUsername, interests |-> interests])
    \/ \E text \in ArticleTexts : CreateArticle(text)
    \/ \E id \in IssuedArticleIds : DeleteArticle(id)
    \/ \E u \in 1..Len(users), a \in IssuedArticleIds, t \in InteractionTypes :
           CreateInteraction(u, a, t)
    \/ \E u \in 1..Len(users), a \in IssuedArticleIds, t \in InteractionTypes :
           RemoveInteraction(u, a, t)
    \/ \E u \in RequestUserIds, limit \in 1..MaxLimit : GetRecommendations(u, limit)

Spec == Init /\ [][Next]_vars

-----------------------------------------------------------------------------
(* The engine read against a populated store, reads failing at times *)

\* GET /recommendations/trending at the service: the reply is kept in `trending`
GetTrending(limit) ==
    /\ trending' = getTrendingArticles(limit)
    /\ UNCHANGED <<storeVars, matcherVars, unavailable, database, response, httpReply,
                   userReply, calls>>

\* the store becomes unavailable for these reads, or available again; replies
\* obtained before say nothing about the reads of now
SetUnavailable(reads) ==
    /\ reads # unavailable
    /\ unavailable' = reads
    /\ DiscardReplies
    /\ UNCHANGED <<storeVars, matcherVars, userReply, calls, database>>

\* outages tried: none, one read at a time, everything
Outages == {{}} \cup {{r} : r \in Reads} \cup {Reads}

\* the elements of s at the positions in keep, order kept
pick(s, keep) ==
    LET indexed == [i \in 1..Len(s) |-> [position |-> i, item |-> s[i]]]
        kept == SelectSeq(indexed, LAMBDA e : e.position \in keep)
    IN  [k \in 1..Len(kept) |-> kept[k].item]

\* the user document POST /users leaves for the n-th user
userDocument(n, interests) ==
    [_id |-> n, username |-> "user" \o ToString(n), interests |-> interests]

\* the article document POST /articles leaves for the n-th article
articleDocument(n, text) ==
    [_id |-> n, title |-> text.title, content |-> text.content, summary |-> text.summary]

\* nothing stored yet
EmptyStore ==
    [users |-> <<>>, articles |-> <<>>, nextArticleId |-> 1, interactions |-> <<>>]

\* a store whose most engaged article does not match the reader: user 1 reads
\* about pasta, users 2..7 each liked and viewed the AI article
BusyStore ==
    [users |-> [n \in 1..7 |-> userDocument(n, IF n = 1 THEN <<"pasta">> ELSE <<>>)],
     articles |->
         <<articleDocument(1, [title |-> "Cooking", content |-> "pasta",
                               summary |-> Summary("")]),
           articleDocument(2, [title |-> "AI news", content |-> "models",
                               summary |-> NoSummary])>>,
     nextArticleId |-> 3,
     interactions |->
         [k \in 1..12 |->
             [userId |-> 2 + (k - 1) \div 2,
              articleId |-> 2,
              interactionType |-> IF k % 2 = 1 THEN "like" ELSE "view"]]]

\* interactions recorded, in this order, in the small stores
SmallStoreInteractions ==
    <<[userId |-> 1, articleId |-> 1, interactionType |-> "view"],
      [userId |-> 2, articleId |-> 1, interactionType |-> "like"],
      [userId |-> 2, articleId |-> 2, interactionType |-> "like"],
      [userId |-> 1, articleId |-> 3, interactionType |-> "like"]>>

\* two users, three articles of which `deleted` were deleted since, and the
\* interactions at the positions in `recorded`
SmallStore(deleted, recorded) ==
    [users |-> <<userDocument(1, <<"ai", "web dev">>), userDocument(2, <<>>)>>,
     articles |->
         SelectSeq(<<articleDocument(1, [title |-> "AI news", content |-> "models",
                                         summary |-> NoSummary]),
                     articleDocument(2, [title |-> "Cooking", content |-> "pasta",
                                         summary |-> Summary("")]),
                     articleDocument(3, [title |-> "Learn web", content |-> "dev tools",
                                         summary |-> Summary("ai")])>>,
                   LAMBDA a : a._id \notin deleted),
     nextArticleId |-> 4,
     interactions |-> pick(SmallStoreInteractions, recorded)]

\* a store with more matching articles than the interest share of a list of
\* three: all three articles match user 1, who liked the oldest one
CrowdedStore ==
    [users |-> <<userDocument(1, <<"ai", "web dev">>)>>,
     articles |->
         <<articleDocument(1, [title |-> "Learn web", content |-> "dev tools",
                               summary |-> Summary("ai")]),
           articleDocument(2, [title |-> "AI news", content |-> "models",
                               summary |-> NoSummary]),
           articleDocument(3, [title |-> "AI news", content |-> "models",
                               summary |-> NoSummary])>>,
     nextArticleId |-> 4,
     interactions |-> <<[userId |-> 1, articleId |-> 1, interactionType |-> "like"]>>]

\* the stores the engine is read against; each is what a run of the write
\* handlers leaves behind
Stores ==
    {EmptyStore, BusyStore, CrowdedStore}
        \cup {SmallStore(deleted, recorded) :
                  deleted \in {{}, {2}},
                  recorded \in SUBSET (1..Len(SmallStoreInteractions))}

InitService ==
    /\ \E store \in Stores :
           /\ users = store.users
           /\ articles = store.articles
           /\ nextArticleId = store.nextArticleId
           /\ interactions = store.interactions
    /\ response = NoResponse
    /\ matcherInput = NULL
    /\ matcherOutput = NoResponse
    /\ unavailable = {}
    /\ database = NoDatabase
    /\ trending = NoResponse
    /\ httpReply = NoResponse
    /\ userReply = NoResponse
    /\ calls = <<>>

NextService ==
    \/ \E reads \in Outages : SetUnavailable(reads)
    \/ \E u \in RequestUserIds, limit \in 1..MaxLimit : GetRecommendations(u, limit)
    \/ \E limit \in 1..MaxLimit : GetTrending(limit)

SpecService == InitService /\ [][NextService]_vars

-----------------------------------------------------------------------------
(* RecommendationController *)

\* req.query.limit: NoQuery when the parameter is absent, Query(text) otherwise
NoQuery == <<>>

Query(text) == <<text>>

\* parseInt(req.query.limit as string) || 10: NaN and 0 are falsy
limitOf(query) ==
    LET parsed == IF query = NoQuery THEN NaN ELSE parseInt(query[1])
    IN  IF parsed.nan \/ parsed.value = 0 THEN 10 ELSE parsed.value

GetRecommendationInfoTrendingWeights ==
    [algorithm |-> "rule-based-v1",
     version |-> "1.0.0",
     scoring |-> [interestBased |-> [titleMatch |-> 30,
                                     summaryMatch |-> 20,
                                     contentMatch |-> 10,
                                     multipleInterestsBonus |-> 5],
                  popularityBased |-> [likesWeight |-> 30, viewsWeight |-> 10]],
     limits |-> [maxRecommendations |-> 50, defaultRecommendations |-> 10]]

\* the data of RecommendationController.getRecommendationInfo; the numbers
\* under `scoring` are in tenths, like the scores (0.5 is 5, 3 is 30)
getRecommendationInfo ==
    [algorithm |-> "rule-based-v1",
     version |-> "1.0.0",
     scoring |-> [interestBased |-> [titleMatch |-> 30,
                                     summaryMatch |-> 20,
                                     contentMatch |-> 10,
                                     multipleInterestsBonus |-> 5],
                  popularityBased |-> [likesWeight |-> 20, viewsWeight |-> 10]],
     limits |-> [maxRecommendations |-> 50, defaultRecommendations |-> 10]]

\* the 400 reply of both handlers' limit validation
limitRejected(request) ==
    [request |-> request, success |-> FALSE, statusCode |-> 400,
     message |-> "Limit must be between 1 and 50"]

\* the reply once recommendationService.getRecommendationsForUser has returned
\* or thrown: the service's Error goes to the error middleware as it is
recommendationsReply(request, limit, recommendations) ==
    IF recommendations.status = "error"
    THEN [request |-> request, success |-> FALSE,
          message |-> recommendations.message]
    ELSE [request |-> request, success |-> TRUE, statusCode |-> 200,
          message |-> "Recommendations generated successfully",
          data |-> recommendations.recommendations,
          user |-> recommendations.user,
          metadata |-> recommendations.metadata,
          pagination |-> [total |-> recommendations.total,
                          limit |-> limit,
                          returned |-> Len(recommendations.recommendations)]]

\* GET /recommendations/:userId: RecommendationController.getRecommendationsForUser
HttpGetRecommendationsForUser(userId, query) ==
    LET limit == limitOf(query)
        request == [operation |-> "getRecommendationsForUser",
                    userId |-> userId, limit |-> query]
    IN  /\ httpReply' =
               IF limit < 1 \/ limit > 50
               THEN limitRejected(request)
               ELSE recommendationsReply(request, limit,
                                         getRecommendationsForUser(userId, limit))
        /\ UNCHANGED <<storeVars, matcherVars, unavailable, database, response, trending,
                       userReply, calls>>

\* the reply once recommendationService.getTrendingArticles has returned or thrown
trendingReply(request, limit, trendingArticles) ==
    IF trendingArticles.status = "error"
    THEN [request |-> request, success |-> FALSE,
          message |-> trendingArticles.message]
    ELSE [request |-> request, success |-> TRUE, statusCode |-> 200,
          message |-> "Trending articles retrieved successfully",
          data |-> trendingArticles.recommendations,
          pagination |-> [total |-> Len(trendingArticles.recommendations),
                          limit |-> limit,
                          returned |-> Len(trendingArticles.recommendations)]]

\* GET /recommendations/trending: RecommendationController.getTrendingArticles
HttpGetTrendingArticles(query) ==
    LET limit == limitOf(query)
        request == [operation |-> "getTrendingArticles", limit |-> query]
    IN  /\ httpReply' =
               IF limit < 1 \/ limit > 50
               THEN limitRejected(request)
               ELSE trendingReply(request, limit, getTrendingArticles(limit))
        /\ UNCHANGED <<storeVars, matcherVars, unavailable, database, response, trending,
                       userReply, calls>>

\* GET /recommendations/info: RecommendationController.getRecommendationInfo
HttpGetRecommendationInfo ==
    /\ httpReply' = [request |-> [operation |-> "getRecommendationInfo"],
                     success |-> TRUE, statusCode |-> 200,
                     message |-> "Recommendation algorithm information",
                     data |-> getRecommendationInfo]
    /\ UNCHANGED <<storeVars, matcherVars, unavailable, database, response, trending,
                   userReply, calls>>

\* integers sent as ?limit=
LimitIntegers == {-1, 0, 1, 2, 50, 51}

\* ?limit= values sent: none, integers in decimal, text that is no integer
LimitQueries ==
    {NoQuery} \cup {Query(ToString(n)) : n \in LimitIntegers}
              \cup {Query("abc"), Query(""), Query(" 3"), Query("2.9")}

\* one request per run: no request changes the store, so a later request
\* meets what the first one met
NextController ==
    /\ httpReply = NoResponse
    /\ \/ \E u \in RequestUserIds, query \in LimitQueries :
              HttpGetRecommendationsForUser(u, query)
       \/ \E query \in LimitQueries : HttpGetTrendingArticles(query)
       \/ HttpGetRecommendationInfo

SpecController == InitService /\ [][NextController]_vars

-----------------------------------------------------------------------------
(* InteractionService.createInteraction, one await at a time, calls running *)
(* side by side with each other and with removeInteraction                  *)

\* a call enters createInteraction
StartCreateInteraction(userId, articleId, interactionType) ==
    /\ Len(calls) < MaxCalls
    /\ calls' = Append(calls, [interactionData |-> [userId |-> userId,
                                                     articleId |-> articleId,
                                                     interactionType |-> interactionType],
                               pc |-> "findOne"])
    /\ UNCHANGED <<storeVars, replyVars, matcherVars, unavailable, database, userReply>>

CreateInteractionFindOneDuplicating(c) ==
    /\ calls[c].pc = "findOne"
    /\ calls' = [calls EXCEPT ![c].pc = "returned"]
    /\ interactions' = Append(interactions, calls[c].interactionData)
    /\ DiscardReplies
    /\ UNCHANGED <<users, articles, nextArticleId, matcherVars, unavailable, database, userReply>>

\* await Interaction.findOne(...): the existing document is returned, or the
\* call goes on to save
CreateInteractionFindOne(c) ==
    /\ calls[c].pc = "findOne"
    /\ calls' = [calls EXCEPT ![c].pc =
                     IF hasInteraction(calls[c].interactionData.userId,
                                       calls[c].interactionData.articleId,
                                       calls[c].interactionData.interactionType)
                     THEN "returned" ELSE "save"]
    /\ UNCHANGED <<storeVars, replyVars, matcherVars, unavailable, database, userReply>>

\* await interaction.save(): the document is inserted and returned, or the
\* unique index on (userId, articleId, interactionType) rejects it with E11000
CreateInteractionSave(c) ==
    /\ calls[c].pc = "save"
    /\ IF hasInteraction(calls[c].interactionData.userId,
                         calls[c].interactionData.articleId,
                         calls[c].interactionData.interactionType)
       THEN /\ calls' = [calls EXCEPT ![c].pc = "catch"]
            /\ UNCHANGED <<interactions, replyVars>>
       ELSE /\ interactions' = Append(interactions, calls[c].interactionData)
            /\ calls' = [calls EXCEPT ![c].pc = "returned"]
            /\ DiscardReplies
    /\ UNCHANGED <<users, articles, nextArticleId, matcherVars, unavailable, database, userReply>>

\* the catch block on a duplicate key error: await Interaction.findOne(...)
\* again; the document is returned if it is found, else the error is rethrown
CreateInteractionCatch(c) ==
    /\ calls[c].pc = "catch"
    /\ calls' = [calls EXCEPT ![c].pc =
                     IF hasInteraction(calls[c].interactionData.userId,
                                       calls[c].interactionData.articleId,
                                       calls[c].interactionData.interactionType)
                     THEN "returned" ELSE "thrown"]
    /\ UNCHANGED <<storeVars, replyVars, matcherVars, unavailable, database, userReply>>

\* one user and one article stored, no interaction yet
InitConcurrent ==
    /\ users = <<userDocument(1, <<>>)>>
    /\ articles = <<articleDocument(1, [title |-> "AI news", content |-> "models",
                                        summary |-> NoSummary])>>
    /\ nextArticleId = 2
    /\ interactions = <<>>
    /\ response = NoResponse
    /\ matcherInput = NULL
    /\ matcherOutput = NoResponse
    /\ unavailable = {}
    /\ database = NoDatabase
    /\ trending = NoResponse
    /\ httpReply = NoResponse
    /\ userReply = NoResponse
    /\ calls = <<>>

NextConcurrent ==
    \/ \E u \in 1..Len(users), a \in IssuedArticleIds, t \in InteractionTypes :
           StartCreateInteraction(u, a, t)
    \/ \E c \in 1..Len(calls) : CreateInteractionFindOne(c)
    \/ \E c \in 1..Len(calls) : CreateInteractionSave(c)
    \/ \E c \in 1..Len(calls) : CreateInteractionCatch(c)
    \/ \E u \in 1..Len(users), a \in IssuedArticleIds, t \in InteractionTypes :
           RemoveInteraction(u, a, t)

SpecConcurrent == InitConcurrent /\ [][NextConcurrent]_vars

-----------------------------------------------------------------------------
(* A read call one query at a time, the store written to in between:        *)
(* getRecommendationsForUser and getInteractionStats hold no transaction    *)
(* and no session, each await is a query of its own against the store as it *)
(* is when the query is served                                              *)

\* the three countDocuments of getInteractionStats
Counters == {"views", "likes", "totalInteractions"}

\* one countDocuments query served now
countNow(articleId, counter) ==
    IF counter = "views" THEN countDocuments(articleId, "view")
    ELSE IF counter = "likes" THEN countDocuments(articleId, "like")
    ELSE Len(SelectSeq(interactions, LAMBDA x : x.articleId = articleId))

\* the value a served count resolved to
countedValue(counted, articleId, counter) ==
    (CHOOSE e \in counted : e.articleId = articleId /\ e.counter = counter).value

\* const [views, likes, totalInteractions] = await Promise.all([...])
statsCounted(counted, articleId) ==
    [views |-> countedValue(counted, articleId, "views"),
     likes |-> countedValue(counted, articleId, "likes"),
     totalInteractions |-> countedValue(counted, articleId, "totalInteractions")]

\* a call that has not returned or thrown yet
InFlight(call) == call.pc \notin {"returned", "thrown"}

\* a call as it enters; atomicReplies collects what the call would have
\* answered had it run in one piece, for every store there is while it runs
newCall(op, userId, articleId, limit, pc, pending, atomicReplies) ==
    [op |-> op, userId |-> userId, articleId |-> articleId, limit |-> limit,
     pc |-> pc, user |-> NULL, viewedArticleIds |-> {},
     interestRecommendations |-> <<>>, candidates |-> <<>>,
     pending |-> pending, counted |-> {}, reply |-> NoResponse,
     atomicReplies |-> atomicReplies]

\* a call enters RecommendationService.getRecommendationsForUser
StartGetRecommendations(userId, limit) ==
    /\ calls = <<>>
    /\ calls' = <<newCall("getRecommendationsForUser", userId, 0, limit, "getUserById",
                          {}, {getRecommendationsForUser(userId, limit)})>>
    /\ UNCHANGED <<storeVars, replyVars, matcherVars, unavailable, database, userReply>>

\* a call enters InteractionService.getInteractionStats: the three counts are sent
StartGetInteractionStats(articleId) ==
    /\ calls = <<>>
    /\ calls' = <<newCall("getInteractionStats", 0, articleId, 0, "countDocuments",
                          {<<articleId, counter>> : counter \in Counters}, {})>>
    /\ UNCHANGED <<storeVars, replyVars, matcherVars, unavailable, database, userReply>>

\* await this.userService.getUserById(userId)
ReadUser(c) ==
    /\ calls[c].pc = "getUserById"
    /\ LET user == getUserById(calls[c].userId)
       IN  calls' = [calls EXCEPT ![c] =
                        IF user = NULL
                        THEN [@ EXCEPT !.pc = "thrown",
                                       !.reply = failure(calls[c].userId, calls[c].limit,
                                                         "User not found")]
                        ELSE [@ EXCEPT !.pc = "getInteractionsByUser", !.user = user]]
    /\ UNCHANGED <<storeVars, replyVars, matcherVars, unavailable, database, userReply>>

\* await this.interactionService.getInteractionsByUser(userId, 1000, 0), then
\* viewedArticleIds
ReadUserInteractions(c) ==
    /\ calls[c].pc = "getInteractionsByUser"
    /\ LET userInteractions == getInteractionsByUser(calls[c].userId, PageLimit)
       IN  calls' = [calls EXCEPT ![c] =
                        IF \E i \in 1..Len(userInteractions) :
                               /\ userInteractions[i].interactionType = "view"
                               /\ userInteractions[i].articleId = NULL
                        THEN [@ EXCEPT !.pc = "thrown",
                                       !.reply =
                                           failure(calls[c].userId, calls[c].limit,
                                                   "Cannot read properties of null (reading 'toString')")]
                        ELSE [@ EXCEPT !.pc = "getArticles",
                                       !.viewedArticleIds =
                                           viewedArticleIdsOf(userInteractions)]]
    /\ UNCHANGED <<storeVars, replyVars, matcherVars, unavailable, database, userReply>>

\* await this.articleService.getArticles(1000, 0), the matcher, and the counts
\* of every popularity candidate sent at once; with no candidate the call returns
ReadArticles(c) ==
    /\ calls[c].pc = "getArticles"
    /\ LET call == calls[c]
           unviewedArticles ==
               unviewedArticlesOf(getArticles(PageLimit), call.viewedArticleIds)
           interestRecommendations ==
               getInterestBasedRecommendations(call.user, unviewedArticles,
                                               ceil06(call.limit))
           candidates ==
               IF call.limit - Len(interestRecommendations) > 0
               THEN popularityCandidates(unviewedArticles, call.viewedArticleIds,
                                         interestRecommendations)
               ELSE <<>>
       IN  calls' = [calls EXCEPT ![c] =
                        IF candidates = <<>>
                        THEN [@ EXCEPT !.pc = "returned",
                                       !.interestRecommendations = interestRecommendations,
                                       !.reply =
                                           recommendationResponse(
                                               call.user, call.limit,
                                               interestRecommendations, <<>>)]
                        ELSE [@ EXCEPT !.pc = "countDocuments",
                                       !.interestRecommendations = interestRecommendations,
                                       !.candidates = candidates,
                                       !.pending =
                                           {<<candidates[i]._id, counter>> :
                                               i \in 1..Len(candidates),
                                               counter \in Counters}]]
    /\ UNCHANGED <<storeVars, replyVars, matcherVars, unavailable, database, userReply>>

\* what the call returns once its last count is in
replyCounted(call, counted) ==
    IF call.op = "getInteractionStats"
    THEN statsCounted(counted, call.articleId)
    ELSE recommendationResponse(
             call.user, call.limit, call.interestRecommendations,
             popularityRecommendationsOf(
                 [i \in 1..Len(call.candidates) |->
                     articleStatOf(call.candidates[i],
                                   statsCounted(counted, call.candidates[i]._id))],
                 call.limit - Len(call.interestRecommendations)))

\* one of the counts sent is served; the counts of a Promise.all are served in
\* any order, and the call goes on when the last one is in
CountDocuments(c, articleId, counter) ==
    /\ calls[c].pc = "countDocuments"
    /\ <<articleId, counter>> \in calls[c].pending
    /\ LET counted == calls[c].counted
                          \cup {[articleId |-> articleId, counter |-> counter,
                                 value |-> countNow(articleId, counter)]}
           pending == calls[c].pending \ {<<articleId, counter>>}
       IN  calls' = [calls EXCEPT ![c] =
                        IF pending = {}
                        THEN [@ EXCEPT !.pc = "returned", !.pending = pending,
                                       !.counted = counted,
                                       !.reply = replyCounted(calls[c], counted)]
                        ELSE [@ EXCEPT !.pending = pending, !.counted = counted]]
    /\ UNCHANGED <<storeVars, replyVars, matcherVars, unavailable, database, userReply>>

\* every call in flight has, among its atomicReplies, what it would answer on
\* the store as it is now
Observed ==
    \A c \in 1..Len(calls) :
        (InFlight(calls[c]) /\ calls[c].op = "getRecommendationsForUser") =>
            getRecommendationsForUser(calls[c].userId, calls[c].limit)
                \in calls[c].atomicReplies

\* reply joins the atomicReplies of call c, which lack it
observeReply(c, reply) ==
    /\ reply \notin calls[c].atomicReplies
    /\ calls' = [calls EXCEPT ![c].atomicReplies = @ \cup {reply}]

\* bookkeeping after a write, before anything else happens: what the call in
\* flight would answer on the new store joins its atomicReplies
Observe(c) ==
    /\ InFlight(calls[c])
    /\ calls[c].op = "getRecommendationsForUser"
    /\ observeReply(c, getRecommendationsForUser(calls[c].userId, calls[c].limit))
    /\ UNCHANGED <<storeVars, replyVars, matcherVars, unavailable, database, userReply>>

\* one reader and two articles, one of which matches the reader
InitSnapshot ==
    /\ users = <<userDocument(1, <<"ai", "web dev">>)>>
    /\ articles = <<articleDocument(1, [title |-> "AI news", content |-> "models",
                                        summary |-> NoSummary]),
                    articleDocument(2, [title |-> "Cooking", content |-> "pasta",
                                        summary |-> Summary("")])>>
    /\ nextArticleId = 3
    /\ interactions = <<>>
    /\ response = NoResponse
    /\ matcherInput = NULL
    /\ matcherOutput = NoResponse
    /\ unavailable = {}
    /\ database = NoDatabase
    /\ trending = NoResponse
    /\ httpReply = NoResponse
    /\ userReply = NoResponse
    /\ calls = <<>>

\* a query of the call, a new call, or a write of another request
CallOrWrite ==
    \/ \E u \in RequestUserIds, limit \in 1..MaxLimit : StartGetRecommendations(u, limit)
    \/ \E a \in IssuedArticleIds : StartGetInteractionStats(a)
    \/ \E c \in 1..Len(calls) : ReadUser(c)
    \/ \E c \in 1..Len(calls) : ReadUserInteractions(c)
    \/ \E c \in 1..Len(calls) : ReadArticles(c)
    \/ \E c \in 1..Len(calls), a \in IssuedArticleIds, counter \in Counters :
           CountDocuments(c, a, counter)
    \/ \E u \in 1..Len(users), a \in IssuedArticleIds, t \in InteractionTypes :
           CreateInteraction(u, a, t)
    \/ \E u \in 1..Len(users), a \in IssuedArticleIds, t \in InteractionTypes :
           RemoveInteraction(u, a, t)
    \/ \E id \in IssuedArticleIds : DeleteArticle(id)

\* the queries of the call and the writes of other requests, in any order
NextSnapshot ==
    \/ \E c \in 1..Len(calls) : Observe(c)
    \/ Observed /\ CallOrWrite

SpecSnapshot == InitSnapshot /\ [][NextSnapshot]_vars

-----------------------------------------------------------------------------
(* DatabaseConnection and the entry point: connect, disconnect, the driver's
   events and the signal handlers *)

Signals == {"SIGTERM", "SIGINT"}

Running == database.exitCode = -1

\* the stores stay as they are while the connection changes
connectionStep ==
    UNCHANGED <<storeVars, matcherVars, replyVars, unavailable, userReply, calls>>

\* connect(): returns at once when isConnected, else awaits mongoose.connect
DbConnect ==
    /\ Running
    /\ ~database.isConnected
    /\ database.listeners + database.connecting < MaxCalls
    /\ database' = [database EXCEPT !.connecting = @ + 1]
    /\ connectionStep

\* mongoose.connect resolved: the flag is set and the two listeners are added
MongooseConnectResolves ==
    /\ Running
    /\ database.connecting > 0
    /\ database' = [database EXCEPT !.connecting = @ - 1,
                                    !.client = "open",
                                    !.isConnected = TRUE,
                                    !.listeners = @ + 1]
    /\ connectionStep

\* mongoose.connect rejected: connect() rethrows, startServer's catch calls
\* disconnect() and exits with code 1
MongooseConnectRejects ==
    /\ Running
    /\ database.connecting > 0
    /\ database' = [database EXCEPT !.connecting = @ - 1,
                                    !.client = IF database.isConnected
                                               THEN "closed" ELSE @,
                                    !.isConnected = FALSE,
                                    !.exitCode = 1]
    /\ connectionStep

\* the driver emits 'error' or 'disconnected' on the open connection: each
\* listener clears the flag; the client stays open and the driver reconnects
DriverEvent(event) ==
    /\ Running
    /\ database.listeners > 0
    /\ database.client = "open"
    /\ database' = [database EXCEPT !.isConnected = FALSE, !.lastEvent = event]
    /\ connectionStep

\* disconnect(): returns at once when the flag is false, else awaits
\* mongoose.disconnect
DbDisconnect ==
    /\ Running
    /\ database.isConnected
    /\ database.disconnecting < MaxCalls
    /\ database' = [database EXCEPT !.disconnecting = @ + 1]
    /\ connectionStep

\* mongoose.disconnect resolved: the client is closed, 'disconnected' is
\* emitted, and the flag is cleared
MongooseDisconnectResolves ==
    /\ Running
    /\ database.disconnecting > 0
    /\ database' = [database EXCEPT !.disconnecting = @ - 1,
                                    !.client = "closed",
                                    !.isConnected = FALSE,
                                    !.lastEvent = IF database.listeners > 0
                                                  THEN "disconnected" ELSE @]
    /\ connectionStep

\* mongoose.disconnect rejected: disconnect() rethrows and changes nothing
MongooseDisconnectRejects ==
    /\ Running
    /\ database.disconnecting > 0
    /\ database' = [database EXCEPT !.disconnecting = @ - 1]
    /\ connectionStep

\* gracefulShutdown(signal): awaits disconnect(), then process.exit(0). With
\* the flag false disconnect() returns at once and the process exits
GracefulShutdown(signal) ==
    /\ Running
    /\ database.shutdown = "none"
    /\ database' = [database EXCEPT !.shutdown = signal,
                                    !.exitCode = IF database.isConnected
                                                 THEN @ ELSE 0]
    /\ connectionStep

\* the mongoose.disconnect that gracefulShutdown awaits resolved
ShutdownDisconnectResolves ==
    /\ Running
    /\ database.shutdown \in Signals
    /\ database' = [database EXCEPT !.client = "closed",
                                    !.isConnected = FALSE,
                                    !.lastEvent = IF database.listeners > 0
                                                  THEN "disconnected" ELSE @,
                                    !.exitCode = 0]
    /\ connectionStep

\* the mongoose.disconnect that gracefulShutdown awaits rejected
ShutdownDisconnectRejects ==
    /\ Running
    /\ database.shutdown \in Signals
    /\ database' = [database EXCEPT !.exitCode = 1]
    /\ connectionStep

NextShutdown ==
    \/ DbConnect
    \/ MongooseConnectResolves
    \/ MongooseConnectRejects
    \/ \E event \in {"error", "disconnected"} : DriverEvent(event)
    \/ DbDisconnect
    \/ MongooseDisconnectResolves
    \/ MongooseDisconnectRejects
    \/ \E signal \in Signals : GracefulShutdown(signal)
    \/ ShutdownDisconnectResolves
    \/ ShutdownDisconnectRejects

SpecShutdown == Init /\ [][NextShutdown]_vars

-----------------------------------------------------------------------------
(* UserService on its own: usernames that collide *)

\* usernames sent in POST /users and PUT /users/:id bodies
Usernames == {"alice", "Alice", " BOB_1 ", "carol"}

\* PUT /users/:id bodies
UpdateBodies ==
    {[username |-> username] : username \in Usernames}
        \cup {[interests |-> <<"ai">>], [username |-> "bob_1", interests |-> <<>>]}

NextUsers ==
    \/ \E username \in Usernames :
           CreateUser([username |-> username, interests |-> <<>>])
    \/ \E id \in RequestUserIds, updateData \in UpdateBodies : UpdateUser(id, updateData)

SpecUsers == Init /\ [][NextUsers]_vars

-----------------------------------------------------------------------------
(* The interest matcher on its own: one article, one interest list *)

MatcherTitles ==
    {"Advanced TypeScript Programming Techniques", "AI news", "Learn web", "Cooking"}

MatcherContents ==
    {"Generics and decorators explained.", "dev tools and AI", "pasta"}

MatcherSummaries ==
    {NoSummary, Summary(""), Summary("A deep dive into tech concepts..."), Summary("ai")}

MatcherInterestLists ==
    {<<>>, <<"tech", "programming">>, <<"AI">>, <<"ai", "web dev">>,
     <<"tech", "Tech">>, <<"pasta", "web dev", "ai">>}

InitMatcher ==
    /\ users = <<>>
    /\ articles = <<>>
    /\ nextArticleId = 1
    /\ interactions = <<>>
    /\ response = NoResponse
    /\ matcherInput \in [title : MatcherTitles, content : MatcherContents,
                         summary : MatcherSummaries, interests : MatcherInterestLists]
    /\ matcherOutput = NoResponse
    /\ unavailable = {}
    /\ database = NoDatabase
    /\ trending = NoResponse
    /\ httpReply = NoResponse
    /\ userReply = NoResponse
    /\ calls = <<>>

\* getInterestBasedRecommendations(user, [article], 1) on the drawn input
RunMatcher ==
    /\ matcherOutput = NoResponse
    /\ matcherOutput' =
           [status |-> "ok",
            recommendations |->
                getInterestBasedRecommendations(
                    [_id |-> 1, username |-> "user1", interests |-> matcherInput.interests],
                    <<[_id |-> 1,
                       title |-> matcherInput.title,
                       content |-> matcherInput.content,
                       summary |-> matcherInput.summary]>>,
                    1)]
    /\ UNCHANGED <<storeVars, replyVars, matcherInput, unavailable, database, userReply, calls>>

NextMatcher == RunMatcher

SpecMatcher == InitMatcher /\ [][NextMatcher]_vars
-----------------------------------------------------------------------------
(* Vocabulary of the properties *)

\* the last call returned a recommendation list
Answered == response.status = "ok"

\* an entry produced by the interest matcher carries matchedInterests
IsInterestBased(rec) == "matchedInterests" \in DOMAIN rec

\* the stored interactions of one kind on one article, by any user
StoredOn(articleId, interactionType) ==
    {j \in 1..Len(interactions) :
        /\ interactions[j].articleId = articleId
        /\ interactions[j].interactionType = interactionType}

\* user u has a stored `view` of article a
HasViewed(u, a) ==
    \E j \in 1..Len(interactions) :
        interactions[j] = [userId |-> u, articleId |-> a, interactionType |-> "view"]

\* position of an article in the listing the content store supplies (newest first)
SupplyIndex(articleId) ==
    CHOOSE k \in 1..Len(articles) : reverse(articles)[k]._id = articleId

\* number of popularity-based entries of the returned list
PopularityEntries ==
    Cardinality({i \in 1..Len(response.recommendations) :
                    ~IsInterestBased(response.recommendations[i])})

-----------------------------------------------------------------------------
(* Properties of getRecommendationsForUser, checked under Spec *)

\* C1: no article for which the requesting user has a stored `view` interaction
\* appears in the list returned by getRecommendationsForUser.
C1_NoViewedArticleRecommended ==
    Answered =>
        \A i \in 1..Len(response.recommendations) :
            ~HasViewed(response.request.userId, response.recommendations[i].article._id)

\* C2: no article identifier appears more than once in a returned list; an
\* interest-based choice is never returned again as a popularity-based one.
C2_NoDuplicateArticle ==
    Answered =>
        \A i, j \in 1..Len(response.recommendations) :
            i # j => response.recommendations[i].article._id
                         # response.recommendations[j].article._id

\* C2 witness: the popularity ranker ran, and an interest-based choice of the
\* same result has engagement of its own
C2_Witness ==
    /\ Answered
    /\ response.request.limit > response.metadata.interestBasedCount
    /\ \E i \in 1..Len(response.recommendations) :
           /\ IsInterestBased(response.recommendations[i])
           /\ StoredOn(response.recommendations[i].article._id, "like") # {}

\* C3: the returned list has at most `limit` entries.
C3_AtMostLimit ==
    Answered =>
        /\ Len(response.recommendations) <= response.request.limit
        /\ response.total <= response.request.limit

\* C3 witness: a full list although more articles than `limit` match the user
C3_Witness ==
    /\ Answered
    /\ Len(response.recommendations) = response.request.limit
    /\ Cardinality({i \in 1..Len(articles) :
                       interestRecommendationsOf(
                           articles[i],
                           getUserById(response.request.userId).interests) # <<>>})
           > response.request.limit

\* C6: a popularity-based entry for article a scores 0.1 x (2 x likes(a) + views(a)),
\* likes and views being all stored interactions of that kind on a; the raw value
\* 2 x likes + views is positive and the attached score is strictly below it.
C6_PopularityScore ==
    Answered =>
        \A i \in 1..Len(response.recommendations) :
            LET rec == response.recommendations[i]
                raw == 2 * Cardinality(StoredOn(rec.article._id, "like"))
                           + Cardinality(StoredOn(rec.article._id, "view"))
            IN  ~IsInterestBased(rec) =>
                    /\ rec.score10 = raw
                    /\ raw > 0
                    /\ rec.score10 < 10 * raw

\* C6 witness: a popularity-based entry for an article with likes and views
C6_Witness ==
    /\ Answered
    /\ \E i \in 1..Len(response.recommendations) :
           /\ ~IsInterestBased(response.recommendations[i])
           /\ StoredOn(response.recommendations[i].article._id, "like") # {}
           /\ StoredOn(response.recommendations[i].article._id, "view") # {}

\* C7: the number of popularity-based entries equals min(L - k, number of
\* unviewed, not-yet-chosen articles with positive popularity), k being the
\* number of interest-based results.
C7_PopularityCount ==
    Answered =>
        LET u == response.request.userId
            chosen == {response.recommendations[i].article._id :
                          i \in {n \in 1..Len(response.recommendations) :
                                    IsInterestBased(response.recommendations[n])}}
            eligible == {i \in 1..Len(articles) :
                            /\ ~HasViewed(u, articles[i]._id)
                            /\ articles[i]._id \notin chosen
                            /\ StoredOn(articles[i]._id, "like")
                                   \cup StoredOn(articles[i]._id, "view") # {}}
        IN  PopularityEntries =
                Min(response.request.limit - response.metadata.interestBasedCount,
                    Cardinality(eligible))

\* C8: for a user with no interests every returned entry is popularity-based
\* and metadata.interestBasedCount is 0.
C8_NoInterestsOnlyPopularity ==
    (Answered /\ getUserById(response.request.userId).interests = <<>>) =>
        /\ response.metadata.interestBasedCount = 0
        /\ \A i \in 1..Len(response.recommendations) :
               ~IsInterestBased(response.recommendations[i])

\* C8 witness: a user without interests is answered with a non-empty list
C8_Witness ==
    /\ Answered
    /\ getUserById(response.request.userId).interests = <<>>
    /\ Len(response.recommendations) > 0

\* C9: the returned list is ordered by non-increasing score, and entries of
\* equal score keep the order of the concatenation: interest-based before
\* popularity-based, and within a strategy the order the articles were supplied.
C9_StableDescendingOrder ==
    Answered =>
        \A i, j \in 1..Len(response.recommendations) :
            LET a == response.recommendations[i]
                b == response.recommendations[j]
            IN  i < j =>
                    /\ a.score10 >= b.score10
                    /\ a.score10 = b.score10 =>
                           \/ IsInterestBased(a) /\ ~IsInterestBased(b)
                           \/ /\ IsInterestBased(a) = IsInterestBased(b)
                              /\ SupplyIndex(a.article._id) < SupplyIndex(b.article._id)

\* C9 witness: two entries of equal score in one returned list
C9_Witness ==
    /\ Answered
    /\ \E i, j \in 1..Len(response.recommendations) :
           /\ i < j
           /\ response.recommendations[i].score10 = response.recommendations[j].score10

\* C10: a userId that resolves to no stored user makes the call fail with
\* 'User not found' and return no recommendation list.
C10_UnknownUserFails ==
    (response.status # "none" /\ getUserById(response.request.userId) = NULL) =>
        /\ response.status = "error"
        /\ response.message = "Failed to generate recommendations: User not found"
        /\ "recommendations" \notin DOMAIN response

\* C10 witness: an unknown user asks while the store holds a user, an article
\* and an interaction on it
C10_Witness ==
    /\ response.status = "error"
    /\ getUserById(response.request.userId) = NULL
    /\ Len(users) > 0
    /\ \E i \in 1..Len(articles) : StoredOn(articles[i]._id, "like") # {}

-----------------------------------------------------------------------------
(* Properties of the engine on a populated store, checked under SpecService *)

\* the stored articles that have at least one stored interaction
TrendingEligible ==
    {k \in 1..Len(articles) :
        StoredOn(articles[k]._id, "like") \cup StoredOn(articles[k]._id, "view") # {}}

\* 3 x likes + views over every stored interaction on the article
TrendingScore(articleId) ==
    3 * Cardinality(StoredOn(articleId, "like")) + Cardinality(StoredOn(articleId, "view"))

\* some stored interaction refers to an article that is no longer stored
DanglingInteraction ==
    \E j \in 1..Len(interactions) :
        \A k \in 1..Len(articles) : articles[k]._id # interactions[j].articleId

\* C12: getTrendingArticles(L) returns the first L entries of the ranking of all
\* stored articles with at least one stored interaction, each scored
\* 3 x likes + views over every stored interaction, by descending score.
C12_TrendingRanking ==
    trending.status = "ok" =>
        LET recs == trending.recommendations
            listed == {recs[i].article._id : i \in 1..Len(recs)}
        IN  /\ Len(recs) = Min(trending.request.limit, Cardinality(TrendingEligible))
            /\ \A i \in 1..Len(recs) :
                   /\ \E k \in TrendingEligible : articles[k]._id = recs[i].article._id
                   /\ recs[i].score = TrendingScore(recs[i].article._id)
            /\ \A i, j \in 1..Len(recs) :
                   i < j => /\ recs[i].score >= recs[j].score
                            /\ recs[i].article._id # recs[j].article._id
            /\ \A k \in TrendingEligible :
                   articles[k]._id \notin listed =>
                       \A i \in 1..Len(recs) :
                           recs[i].score >= TrendingScore(articles[k]._id)

\* C13: when a stored interaction refers to an article that no longer resolves,
\* getTrendingArticles still succeeds and ranks the articles that do resolve.
C13_UnresolvableSkipped ==
    (trending.status # "none" /\ DanglingInteraction) =>
        /\ trending.status = "ok"
        /\ Len(trending.recommendations) > 0 <=> TrendingEligible # {}
        /\ \A i \in 1..Len(trending.recommendations) :
               \E k \in 1..Len(articles) :
                   articles[k]._id = trending.recommendations[i].article._id

C16_ReadsLeaveStoresUnchanged ==
    [][(\/ response' # response /\ response'.status # "none"
        \/ trending' # trending /\ trending'.status # "none")
           => /\ users' = users
              /\ articles' = articles
              /\ interactions' = interactions]_vars

\* C16 witness: on a store holding interactions, one of the two operations has
\* returned a non-empty list and the other has failed
C16_Witness ==
    /\ Answered
    /\ Len(response.recommendations) > 0
    /\ trending.status = "error"
    /\ interactions # <<>>

\* C18: in every result of getRecommendationsForUser every popularity-based
\* entry scores strictly lower than every interest-based entry, and so never
\* ranks above one.
C18_PopularityBelowInterest ==
    Answered =>
        \A i, j \in 1..Len(response.recommendations) :
            (/\ IsInterestBased(response.recommendations[i])
             /\ ~IsInterestBased(response.recommendations[j])) =>
                /\ response.recommendations[j].score10 < response.recommendations[i].score10
                /\ i < j

-----------------------------------------------------------------------------
(* Properties of RecommendationController, checked under SpecController *)

\* the controller has answered a request that carries a limit
LimitedRequestAnswered ==
    /\ httpReply # NoResponse
    /\ httpReply.request.operation \in {"getRecommendationsForUser", "getTrendingArticles"}

\* the request was rejected with HTTP 400 and carries no result
Rejected400 ==
    /\ "statusCode" \in DOMAIN httpReply
    /\ httpReply.statusCode = 400
    /\ "data" \notin DOMAIN httpReply

\* C11: a recommendation or trending request whose limit is an integer outside
\* [1, 50], 0 and negative values included, is rejected with HTTP 400 and yields
\* no results; only limits within [1, 50], or an absent limit (default 10),
\* produce a result list.
C11_LimitOutOfRangeRejected ==
    LimitedRequestAnswered =>
        /\ \A n \in LimitIntegers :
               (httpReply.request.limit = Query(ToString(n)) /\ (n < 1 \/ n > 50))
                   => Rejected400
        /\ "data" \in DOMAIN httpReply =>
               /\ httpReply.request.limit = NoQuery => httpReply.pagination.limit = 10
               /\ \A n \in LimitIntegers :
                      httpReply.request.limit = Query(ToString(n)) =>
                          /\ n \in 1..50
                          /\ httpReply.pagination.limit = n

-----------------------------------------------------------------------------
(* Properties of the interest matcher, checked under SpecMatcher *)

\* the matcher has run on matcherInput
Matched == matcherOutput.status = "ok"

\* what the matcher returned
MatcherRecs == matcherOutput.recommendations

\* term occurs in text, letter case ignored
ContainsIgnoringCase(text, term) == includes(toLowerCase(text), toLowerCase(term))

\* the field points of one term on the drawn article, in tenths:
\* 3 for the title, 2 for a present summary, 1 for the content
FieldPoints10(term) ==
    (IF ContainsIgnoringCase(matcherInput.title, term) THEN 30 ELSE 0)
    + (IF /\ matcherInput.summary # NoSummary
          /\ ContainsIgnoringCase(matcherInput.summary[1], term) THEN 20 ELSE 0)
    + (IF ContainsIgnoringCase(matcherInput.content, term) THEN 10 ELSE 0)

RECURSIVE SumFieldPoints10(_)
SumFieldPoints10(terms) ==
    IF Len(terms) = 0 THEN 0 ELSE FieldPoints10(Head(terms)) + SumFieldPoints10(Tail(terms))

\* the interest terms found in the text the matcher searches: title, content
\* and summary, separated by blanks
TermsFound ==
    SelectSeq(matcherInput.interests,
              LAMBDA term :
                  ContainsIgnoringCase(
                      matcherInput.title \o " " \o matcherInput.content \o " "
                          \o (IF matcherInput.summary = NoSummary
                              THEN "" ELSE matcherInput.summary[1]),
                      term))

IsReadmeExample ==
    /\ matcherInput.title = "Advanced TypeScript Programming Techniques"
    /\ matcherInput.summary = Summary("A deep dive into tech concepts...")
    /\ matcherInput.content = "Generics and decorators explained."
    /\ matcherInput.interests = <<"tech", "programming">>

-----------------------------------------------------------------------------
(* Properties of createInteraction calls side by side, checked under SpecConcurrent *)

\* C17: after any interleaving of createInteraction and removeInteraction calls
\* the interaction store holds at most one record per (user, article, kind),
\* and every createInteraction call returns the record rather than an error.
C17_OneRecordPerTripleNoError ==
    /\ \A i, j \in 1..Len(interactions) : i # j => interactions[i] # interactions[j]
    /\ \A c \in 1..Len(calls) : calls[c].pc # "thrown"

-----------------------------------------------------------------------------
(* Properties of UserService, checked under SpecUsers *)

\* no two stored users hold the same username, letter case ignored
UniqueUsernames ==
    \A i, j \in 1..Len(users) :
        i # j => toLowerCase(users[i].username) # toLowerCase(users[j].username)

\* the write the request asks for would leave two users with one username:
\* a user other than the one written holds it, letter case ignored
WouldDuplicate(request) ==
    /\ request.operation = "updateUser" =>
           /\ request.username # ""
           /\ \E i \in 1..Len(users) : users[i]._id = request.id
    /\ \E i \in 1..Len(users) :
           /\ users[i]._id # request.id
           /\ toLowerCase(users[i].username) = toLowerCase(trim(request.username))

\* C20: after any sequence of createUser and updateUser no two stored users
\* have the same username, compared case-insensitively; a createUser or
\* updateUser that would produce a duplicate fails with 'Username already
\* exists' and leaves the user store unchanged.
C20_UsernamesUnique ==
    [][/\ UniqueUsernames'
       /\ (userReply' # userReply /\ WouldDuplicate(userReply'.request)) =>
              /\ userReply'.status = "error"
              /\ userReply'.message = "Username already exists"
              /\ users' = users
       /\ (userReply' # userReply /\ userReply'.status = "error") => users' = users]_vars

\* C20 witness: with two users stored, renaming one to the other's username in
\* another letter case was refused
C20_Witness ==
    /\ Len(users) >= 2
    /\ userReply.status = "error"
    /\ userReply.request.operation = "updateUser"
    /\ \E i \in 1..Len(users) :
           /\ users[i]._id # userReply.request.id
           /\ users[i].username # userReply.request.username
           /\ users[i].username = toLowerCase(trim(userReply.request.username))

-----------------------------------------------------------------------------
(* The reported constants against the scores, checked under SpecController *)

RECURSIVE ReportedInterestScore10(_, _)
\* the score, in tenths, the reported interest weights give the article for
\* these matched terms: per term the weight of each field containing it, plus
\* the bonus
ReportedInterestScore10(article, terms) ==
    IF Len(terms) = 0 THEN 0
    ELSE LET weights == getRecommendationInfo.scoring.interestBased
             term == Head(terms)
         IN  (IF ContainsIgnoringCase(article.title, term) THEN weights.titleMatch ELSE 0)
             + (IF /\ article.summary # NoSummary
                   /\ ContainsIgnoringCase(article.summary[1], term)
                THEN weights.summaryMatch ELSE 0)
             + (IF ContainsIgnoringCase(article.content, term)
                THEN weights.contentMatch ELSE 0)
             + weights.multipleInterestsBonus
             + ReportedInterestScore10(article, Tail(terms))

-----------------------------------------------------------------------------
(* Repeated and cross-field interest terms, checked under SpecMatcher *)

RECURSIVE DistinctIgnoringCase(_, _)
\* terms without repetitions, letter case ignored, first occurrences kept
DistinctIgnoringCase(terms, seen) ==
    IF Len(terms) = 0 THEN <<>>
    ELSE IF toLowerCase(Head(terms)) \in seen
         THEN DistinctIgnoringCase(Tail(terms), seen)
         ELSE <<Head(terms)>>
              \o DistinctIgnoringCase(Tail(terms), seen \cup {toLowerCase(Head(terms))})

\* C21: the bonus is 0.5 per distinct matched term: an interest list that
\* repeats a term yields the score and the matched terms of the list without
\* the repetition.
C21_RepeatedTermCountsOnce ==
    Matched =>
        \A i \in 1..Len(MatcherRecs) :
            LET distinct == DistinctIgnoringCase(TermsFound, {})
            IN  /\ MatcherRecs[i].matchedInterests = distinct
                /\ MatcherRecs[i].score10 = SumFieldPoints10(distinct) + 5 * Len(distinct)

\* C22: a term is recorded as matched only if one field alone contains it, so
\* every matched term carries at least 1 field point and every interest-based
\* recommendation scores at least 1.5.
C22_MatchedTermInOneField ==
    Matched =>
        \A i \in 1..Len(MatcherRecs) :
            /\ \A k \in 1..Len(MatcherRecs[i].matchedInterests) :
                   FieldPoints10(MatcherRecs[i].matchedInterests[k]) >= 10
            /\ MatcherRecs[i].score10 >= 15

-----------------------------------------------------------------------------
(* The split between the two strategies, checked under Spec *)

\* the interest-based entries of the returned list
InterestEntries == SelectSeq(response.recommendations, IsInterestBased)

\* the stored articles that match an interest of the requesting user
InterestMatches ==
    {i \in 1..Len(articles) :
        interestRecommendationsOf(
            articles[i], getUserById(response.request.userId).interests) # <<>>}

\* the interest score, in tenths, of a matching stored article
InterestScore10(i) ==
    interestRecommendationsOf(
        articles[i], getUserById(response.request.userId).interests)[1].score10

\* the interest matches the requesting user has not viewed
UnviewedInterestMatches ==
    {i \in InterestMatches : ~HasViewed(response.request.userId, articles[i]._id)}

\* C23: at most ceil(0.6 x L) interest-based entries are produced, and they are
\* the highest-scoring interest matches among the unviewed candidates: each is
\* an unviewed match, as many as the cap and the matches allow, and no omitted
\* match scores strictly higher than a returned one.
C23_TopInterestMatches ==
    Answered =>
        LET returned == {InterestEntries[k].article._id : k \in 1..Len(InterestEntries)}
        IN  /\ Len(InterestEntries) <= ceil06(response.request.limit)
            /\ Len(InterestEntries) =
                   Min(ceil06(response.request.limit), Cardinality(UnviewedInterestMatches))
            /\ returned \subseteq {articles[i]._id : i \in UnviewedInterestMatches}
            /\ \A i \in UnviewedInterestMatches, k \in 1..Len(InterestEntries) :
                   articles[i]._id \notin returned =>
                       InterestScore10(i) <= InterestEntries[k].score10

-----------------------------------------------------------------------------
(* The popularity ranker's candidates, checked under SpecService *)

\* C24: every popularity-based entry of a result is for an article with zero
\* matched interest terms.
C24_PopularityEntriesMatchNoInterest ==
    Answered =>
        \A i \in 1..Len(response.recommendations) :
            ~IsInterestBased(response.recommendations[i]) =>
                interestRecommendationsOf(
                    response.recommendations[i].article,
                    getUserById(response.request.userId).interests) = <<>>

-----------------------------------------------------------------------------
(* Repeating an interaction, checked under SpecConcurrent *)

\* call c asks for a triple the store holds
AsksForStored(c) ==
    hasInteraction(calls[c].interactionData.userId,
                   calls[c].interactionData.articleId,
                   calls[c].interactionData.interactionType)

\* C25: createInteraction for a triple that is already stored returns the
\* existing record and leaves the interaction store unchanged: the statistics
\* of every article, its popularity score and the trending list stay as they were.
C25_RepeatedInteractionChangesNothing ==
    [][\A c \in 1..Len(calls) :
           (calls[c].pc = "findOne" /\ AsksForStored(c) /\ calls'[c].pc # "findOne") =>
               /\ calls'[c].pc = "returned"
               /\ interactions' = interactions
               /\ \A i \in 1..Len(articles) :
                      /\ getInteractionStats(articles[i]._id)'
                             = getInteractionStats(articles[i]._id)
                      /\ articleStat(articles[i]).popularityScore'
                             = articleStat(articles[i]).popularityScore
               /\ \A limit \in 1..MaxLimit :
                      getTrendingArticles(limit)' = getTrendingArticles(limit)]_vars

\* C25 witness: two calls for one like have both returned, and the store holds
\* that like once and a view besides
C25_Witness ==
    /\ Len(calls) >= 2
    /\ calls[1].interactionData = calls[2].interactionData
    /\ calls[1].interactionData.interactionType = "like"
    /\ calls[1].pc = "returned"
    /\ calls[2].pc = "returned"
    /\ Cardinality(StoredOn(1, "like")) = 1
    /\ Cardinality(StoredOn(1, "view")) = 1

-----------------------------------------------------------------------------
(* The counts reported with a result, checked under Spec *)

\* C26: in every successful response interestBasedCount + popularityBasedCount
\* = total = length of the returned list, and interestBasedCount is the number
\* of returned entries that carry matched-interest terms.
C26_MetadataCountsReturnedEntries ==
    Answered =>
        /\ response.metadata.interestBasedCount + response.metadata.popularityBasedCount
               = response.total
        /\ response.total = Len(response.recommendations)
        /\ response.metadata.interestBasedCount = Len(InterestEntries)
        /\ response.metadata.popularityBasedCount = PopularityEntries

\* C26 witness: a list filled up to its limit by both strategies
C26_Witness ==
    /\ Answered
    /\ Len(response.recommendations) = response.request.limit
    /\ Len(InterestEntries) > 0
    /\ PopularityEntries > 0

-----------------------------------------------------------------------------
(* A read call against a store that is written to, checked under SpecSnapshot *)

\* C27: a getRecommendationsForUser call that runs while interactions and
\* articles are written returns what an atomic execution returns on one of the
\* stores there were between the call's start and its end.
C27_ReadsOneSnapshot ==
    \A c \in 1..Len(calls) :
        (calls[c].op = "getRecommendationsForUser" /\ ~InFlight(calls[c])) =>
            calls[c].reply \in calls[c].atomicReplies

\* C29: every value returned by getInteractionStats has totalInteractions =
\* views + likes, interactions being created or removed while the call runs.
C29_TotalIsViewsPlusLikes ==
    \A c \in 1..Len(calls) :
        (calls[c].op = "getInteractionStats" /\ ~InFlight(calls[c])) =>
            calls[c].reply.totalInteractions
                = calls[c].reply.views + calls[c].reply.likes

-----------------------------------------------------------------------------
(* Lists that fall short of the limit, checked under Spec *)

\* C28: a list shorter than L holds every article the user has not viewed that
\* matches one of the user's interests or has positive popularity.
C28_ShortOnlyWhenExhausted ==
    (Answered /\ Len(response.recommendations) < response.request.limit) =>
        \A i \in 1..Len(articles) :
            (/\ ~HasViewed(response.request.userId, articles[i]._id)
             /\ \/ i \in InterestMatches
                \/ StoredOn(articles[i]._id, "like")
                       \cup StoredOn(articles[i]._id, "view") # {}) =>
                \E k \in 1..Len(response.recommendations) :
                    response.recommendations[k].article._id = articles[i]._id

(***************************************************************************)
(* C30                                                                     *)
(***************************************************************************)

\* C30: whenever the graceful-shutdown handler has exited the process with
\* code 0, the client that connect() opened has been closed by
\* mongoose.disconnect, whatever connects, disconnects and driver events
\* came before.
C30_ExitZeroAfterClientClosed ==
    (database.shutdown \in Signals /\ database.exitCode = 0)
        => database.client = "closed"
=============================================================================
